---- MODULE Spec2Model ----
(***************************************************************************)
(* Model of the Real Estate Search MCP server (src/main.py): the tool      *)
(* search_properties, the query construction and the request/response      *)
(* cycle of _search_melo_properties.                                       *)
(*                                                                         *)
(* Optional[T] values are modelled as sequences: None is <<>>, a present   *)
(* value v is <<v>>.  Text built with f-strings (log records, exception    *)
(* messages) is a sequence of fragments: the literal parts and the         *)
(* interpolated values.                                                    *)
(***************************************************************************)
EXTENDS Integers, Sequences, FiniteSets, TLC

\* ------------------------------------------------------------ bounds
NumInvocations == 2          \* concurrent tool invocations
MaxZipCodes == 2             \* longest zip_codes list a caller gives

\* ------------------------------------------------- program constants
MELO_API_BASE_URL == "https://api.notif.immo"
DefaultItemsPerPage == 5
DefaultPage == 1
MinItemsPerPage == 1
MaxItemsPerPage == 10

None == <<>>
Some(v) == <<v>>
IsNone(o) == o = <<>>
Val(o) == o[1]

\* ------------------------------------------------------ python str()
Digit(d) ==
    CASE d = 0 -> "0" [] d = 1 -> "1" [] d = 2 -> "2" [] d = 3 -> "3"
      [] d = 4 -> "4" [] d = 5 -> "5" [] d = 6 -> "6" [] d = 7 -> "7"
      [] d = 8 -> "8" [] d = 9 -> "9"

RECURSIVE NatStr(_)
NatStr(n) == IF n < 10 THEN Digit(n) ELSE NatStr(n \div 10) \o Digit(n % 10)

str(n) == IF n < 0 THEN "-" \o NatStr(0 - n) ELSE NatStr(n)

\* Python truthiness of an Optional[str] / Optional[list]: None and the
\* empty value are both false.
Truthy(o, empty) == ~IsNone(o) /\ Val(o) # empty

\* --------------------------------------------- search_properties maps
\* Variant: the two property type codes exchanged.
property_type_map_swapped(label) ==
    CASE label = "apartment" -> 1 [] label = "house" -> 0

property_type_map(label) ==
    CASE label = "apartment" -> 0 [] label = "house" -> 1

transaction_type_map(label) ==
    CASE label = "sell" -> 0 [] label = "rent" -> 1

\* A declared Field default applies when the caller leaves the field unset.
FieldDefault(o, d) == IF IsNone(o) THEN d ELSE Val(o)

\* The keyword arguments search_properties passes to _search_melo_properties.
search_properties_args(c) ==
    [ property_type       |-> Some(property_type_map(c.propertyType)),
      transaction_type    |-> Some(transaction_type_map(c.transactionType)),
      budget_min          |-> c.budgetMin,
      budget_max          |-> c.budgetMax,
      surface_min         |-> c.surfaceMin,
      surface_max         |-> c.surfaceMax,
      price_per_meter_min |-> c.pricePerMeterMin,
      price_per_meter_max |-> c.pricePerMeterMax,
      bedroom_min         |-> c.bedroomMin,
      included_zipcodes   |-> c.zipCodes,
      order_by            |-> c.orderBy,
      items_per_page      |-> FieldDefault(c.itemsPerPage, DefaultItemsPerPage),
      page                |-> FieldDefault(c.page, DefaultPage) ]

\* ------------------------------------- _search_melo_properties: params
\* Variant: `if x:` instead of `if x is not None:`, which drops a 0.
int_param_truthy(key, o) ==
    IF IsNone(o) \/ Val(o) = 0 THEN <<>> ELSE << <<key, str(Val(o))>> >>

\* if x is not None: params.append((key, str(x)))
int_param(key, o) == IF IsNone(o) THEN <<>> ELSE << <<key, str(Val(o))>> >>

\* Variant: each zip code emitted once (a set of zip codes, not a list).
RECURSIVE zipcode_params_dedup(_)
zipcode_params_dedup(zs) ==
    IF zs = <<>> THEN <<>>
    ELSE (IF \E k \in 2 .. Len(zs) : zs[k] = Head(zs)
          THEN <<>> ELSE << <<"includedZipcodes[]", Head(zs)>> >>)
         \o zipcode_params_dedup(Tail(zs))

RECURSIVE zipcode_params(_)
zipcode_params(zs) ==
    IF zs = <<>> THEN <<>>
    ELSE << <<"includedZipcodes[]", Head(zs)>> >> \o zipcode_params(Tail(zs))

included_zipcodes_params(o) ==
    IF Truthy(o, <<>>) THEN zipcode_params(Val(o)) ELSE <<>>

\* Variant: every sort key ascending.
order_params_all_asc(o) ==
    IF Truthy(o, "")
    THEN CASE Val(o) = "pricePerMeter" -> << <<"order[pricePerMeter]", "asc">> >>
           [] Val(o) = "price"         -> << <<"order[price]", "asc">> >>
           [] Val(o) = "updatedAt"     -> << <<"order[updatedAt]", "asc">> >>
           [] OTHER                    -> <<>>
    ELSE <<>>

order_params(o) ==
    IF Truthy(o, "")
    THEN CASE Val(o) = "pricePerMeter" -> << <<"order[pricePerMeter]", "asc">> >>
           [] Val(o) = "price"         -> << <<"order[price]", "asc">> >>
           [] Val(o) = "updatedAt"     -> << <<"order[updatedAt]", "desc">> >>
           [] OTHER                    -> <<>>
    ELSE <<>>

build_params(a) ==
       int_param("propertyTypes[]", a.property_type)
    \o int_param("transactionType", a.transaction_type)
    \o int_param("budgetMin", a.budget_min)
    \o int_param("budgetMax", a.budget_max)
    \o int_param("surfaceMin", a.surface_min)
    \o int_param("surfaceMax", a.surface_max)
    \o int_param("pricePerMeterMin", a.price_per_meter_min)
    \o int_param("pricePerMeterMax", a.price_per_meter_max)
    \o int_param("bedroomMin", a.bedroom_min)
    \o included_zipcodes_params(a.included_zipcodes)
    \o order_params(a.order_by)
    \o << <<"itemsPerPage", str(a.items_per_page)>>,
          <<"page", str(a.page)>>,
          <<"withCoherentPrice", "true">> >>

\* translate = the query search_properties sends for criteria c
translate(c) == build_params(search_properties_args(c))

\* ------------------------------------------------------- JSON values
\* A decoded JSON value is tagged with its Python type; v holds the content
\* (a function from keys for a dict, a sequence for a list, <<x>> for a scalar).
JObject(f) == [t |-> "dict", v |-> f]
JArray(s) == [t |-> "list", v |-> s]
JString(s) == [t |-> "str", v |-> <<s>>]
JNumber(n) == [t |-> "int", v |-> <<n>>]
JNull == [t |-> "NoneType", v |-> <<>>]

\* dict.get(key, default)
dict_get(j, key, default) == IF key \in DOMAIN j.v THEN j.v[key] ELSE default

\* Types on which len() is defined.
Sized == {"dict", "list", "str"}

\* Text of a value interpolated into an f-string.
RECURSIVE Text(_)
Text(j) ==
    CASE j.t = "int"      -> str(j.v[1])
      [] j.t = "str"      -> j.v[1]
      [] j.t = "NoneType" -> "None"
      [] j.t = "list"     -> "[" \o (IF j.v = <<>> THEN "" ELSE Text(j.v[1]) \o ",..") \o "]"
      [] j.t = "dict"     -> "{" \o str(Cardinality(DOMAIN j.v)) \o " keys}"

\* --------------------------------------------------------- exceptions
Exc(type, msg) == [type |-> type, msg |-> msg]

MissingCredentialError ==
    Exc("ValueError", <<"Missing X-API-KEY header. Please provide your Melo API key.">>)
InvalidCredentialError ==
    Exc("ValueError", <<"Invalid Melo API key. Please check your credentials.">>)
HTTPStatusError(status, url) ==
    Exc("HTTPStatusError", <<"status ", str(status), " for url ", url>>)
TimeoutException == Exc("TimeoutException", <<"timed out">>)
ConnectError == Exc("ConnectError", <<"connection failed">>)
JSONDecodeError == Exc("JSONDecodeError", <<"Expecting value">>)
AttributeError(t) == Exc("AttributeError", <<t, " object has no attribute 'get'">>)
TypeError(t) == Exc("TypeError", <<"object of type ", t, " has no len()">>)
CancelledError == Exc("CancelledError", <<>>)

\* ------------------------------------------------------------ logging
Rec(level, msg) == [level |-> level, msg |-> msg]

RECURSIVE param_lines(_)
param_lines(ps) ==
    IF ps = <<>> THEN <<>>
    ELSE <<Rec("INFO", <<"  ", Head(ps)[1], ": ", Head(ps)[2]>>)>> \o param_lines(Tail(ps))

\* Variant: the request headers are logged with the parameters.
request_log_with_headers(f) ==
    << Rec("INFO", <<"=">>),
       Rec("INFO", <<"Melo API Request">>),
       Rec("INFO", <<"URL: ", f.url>>),
       Rec("INFO", <<"Headers: ", f.headers["Content-Type"], f.headers["X-API-KEY"]>>),
       Rec("INFO", <<"Parameters:">>) >>
    \o param_lines(f.params)

\* The records logged before the call; f holds the locals of
\* _search_melo_properties (url, params, headers).
request_log(f) ==
    << Rec("INFO", <<"=">>),
       Rec("INFO", <<"Melo API Request">>),
       Rec("INFO", <<"URL: ", f.url>>),
       Rec("INFO", <<"Parameters:">>) >>
    \o param_lines(f.params)

\* The records logged after a decoded response, and the exception the
\* logging statements raise, if any (None when they all complete).
response_log(status, data) ==
    LET head == << Rec("INFO", <<"-">>),
                   Rec("INFO", <<"Melo API Response">>),
                   Rec("INFO", <<"Status Code: ", str(status)>>) >>
    IN  IF data.t # "dict"
        THEN [records |-> head, exc |-> Some(AttributeError(data.t))]
        ELSE
        LET total == IF "hydra:totalItems" \in DOMAIN data.v
                     THEN Text(data.v["hydra:totalItems"]) ELSE "N/A"
            member == dict_get(data, "hydra:member", JArray(<<>>))
            l1 == head \o <<Rec("INFO", <<"Total Items: ", total>>)>>
        IN  IF member.t \notin Sized
            THEN [records |-> l1, exc |-> Some(TypeError(member.t))]
            ELSE [records |-> l1 \o
                     << Rec("INFO", <<"Properties Returned: ",
                                      str(IF member.t = "str" THEN Len(member.v[1])
                                          ELSE IF member.t = "list" THEN Len(member.v)
                                          ELSE Cardinality(DOMAIN member.v))>>),
                        Rec("INFO", <<"Response Preview: ", Text(data), "...">>),
                        Rec("INFO", <<"=">>) >>,
                  exc |-> None]

\* ---------------------------------------------------- upstream outcomes
Response(status, body) == [kind |-> "response", status |-> status, body |-> body]
Timeout == [kind |-> "timeout", status |-> 0, body |-> None]
ConnectFailure == [kind |-> "connect_error", status |-> 0, body |-> None]

\* A body is None when it does not decode as JSON, else the decoded value.
is_success(status) == 200 <= status /\ status <= 299

\* Variant: only 401 is taken for a rejected credential.
status_error_handler_401_only(status, url) ==
    IF status = 401
    THEN [records |-> <<Rec("ERROR", <<"Invalid Melo API key">>)>>,
          returned |-> None, raised |-> Some(InvalidCredentialError)]
    ELSE [records |-> <<>>, returned |-> None, raised |-> Some(HTTPStatusError(status, url))]

\* Variant: every status error is reported as a rejected credential.
status_error_handler_any_status(status, url) ==
    [records |-> <<Rec("ERROR", <<"Invalid Melo API key">>)>>,
     returned |-> None, raised |-> Some(InvalidCredentialError)]

\* except httpx.HTTPStatusError as e
status_error_handler(status, url) ==
    IF status \in {401, 403}
    THEN [records |-> <<Rec("ERROR", <<"Invalid Melo API key">>)>>,
          returned |-> None, raised |-> Some(InvalidCredentialError)]
    ELSE [records |-> <<>>, returned |-> None, raised |-> Some(HTTPStatusError(status, url))]

\* The try block after the GET resolves with r: what is logged, returned, raised.
handle_outcome(r, url) ==
    CASE r.kind = "timeout" ->
            [records |-> <<>>, returned |-> None, raised |-> Some(TimeoutException)]
      [] r.kind = "connect_error" ->
            [records |-> <<>>, returned |-> None, raised |-> Some(ConnectError)]
      [] r.kind = "response" ->
            IF ~is_success(r.status) THEN status_error_handler(r.status, url)
            ELSE IF IsNone(r.body)
            THEN [records |-> <<>>, returned |-> None, raised |-> Some(JSONDecodeError)]
            ELSE LET data == Val(r.body)
                     lg == response_log(r.status, data)
                 IN  IF IsNone(lg.exc)
                     THEN [records |-> lg.records, returned |-> Some(data), raised |-> None]
                     ELSE [records |-> lg.records, returned |-> None, raised |-> lg.exc]

\* ------------------------------------------------------ the invocation
\* Variant: `if api_key is None`, which lets an empty header through.
missing_api_key_none_only(h) == IsNone(h)

\* if not api_key
missing_api_key(h) == ~Truthy(h, "")

request_headers(api_key) ==
    ("Content-Type" :> "application/json") @@ ("X-API-KEY" :> api_key)

\* Variant: the GET is sent a second time.
client_get_twice(f) ==
    << [method |-> "GET", url |-> f.url, headers |-> f.headers, params |-> f.params],
       [method |-> "GET", url |-> f.url, headers |-> f.headers, params |-> f.params] >>

\* The GET requests client.get puts on the wire.
client_get(f) ==
    << [method |-> "GET", url |-> f.url, headers |-> f.headers, params |-> f.params] >>

locals(api_key, c) ==
    [ api_key |-> api_key,
      url     |-> MELO_API_BASE_URL \o "/documents/properties",
      params  |-> translate(c),
      headers |-> request_headers(api_key) ]

\* --------------------------------------------------------------- state
VARIABLES
    call,       \* per invocation: the tool call as the transport delivered it
    frame,      \* per invocation: the locals of the running coroutine, or None
    sent,       \* per invocation: the GET requests it put on the wire
    reply,      \* per invocation: what the upstream GET resolved to, or None
    log,        \* per invocation: the records it wrote to the "melo-mcp" logger
    returned,   \* per invocation: the value returned to the caller, or None
    raised,     \* per invocation: the exception raised to the caller, or None
    criteria,   \* translation: the SearchCriteria under translation
    query       \* translation: the translated query, or None before it ran

vars == <<call, frame, sent, reply, log, returned, raised, criteria, query>>
invocation_vars == <<call, frame, sent, reply, log, returned, raised>>

Invocations == 1 .. NumInvocations

\* ---------------------------------------------------------- input sets
OptionalFields ==
    << "budgetMin", "budgetMax", "surfaceMin", "surfaceMax",
       "pricePerMeterMin", "pricePerMeterMax", "bedroomMin" >>

\* Values a caller gives the seven optional numeric fields, in the order of
\* OptionalFields: all zero, and a mix with a negative value and values
\* around the digit boundaries.
NumericRows ==
    { <<0, 0, 0, 0, 0, 0, 0>>,
      <<100000, 0, 9, 10, 99, 3000, -1>> }

ZipSamples == {"75011", "75012"}

RECURSIVE SeqsUpTo(_, _)
SeqsUpTo(S, n) ==
    IF n = 0 THEN {<<>>}
    ELSE LET shorter == SeqsUpTo(S, n - 1)
         IN  shorter \cup {Append(q, x) : q \in {r \in shorter : Len(r) = n - 1}, x \in S}

ZipInputs == {None} \cup {Some(z) : z \in SeqsUpTo(ZipSamples, MaxZipCodes)}

\* order_by as _search_melo_properties accepts it (any Optional[str]).
OrderByInputs ==
    {None, Some(""), Some("pricePerMeter"), Some("price"), Some("updatedAt"),
     Some("surface")}

\* (itemsPerPage, page) as the caller gives them; None is "left unset".
PaginationInputs ==
    { <<None, None>>, <<Some(MinItemsPerPage), Some(3)>>,
      <<Some(MaxItemsPerPage), None>> }

Criteria(pt, tt, set, row, zips, ob, pg) ==
    [ propertyType     |-> pt,
      transactionType  |-> tt,
      budgetMin        |-> IF 1 \in set THEN Some(row[1]) ELSE None,
      budgetMax        |-> IF 2 \in set THEN Some(row[2]) ELSE None,
      surfaceMin       |-> IF 3 \in set THEN Some(row[3]) ELSE None,
      surfaceMax       |-> IF 4 \in set THEN Some(row[4]) ELSE None,
      pricePerMeterMin |-> IF 5 \in set THEN Some(row[5]) ELSE None,
      pricePerMeterMax |-> IF 6 \in set THEN Some(row[6]) ELSE None,
      bedroomMin       |-> IF 7 \in set THEN Some(row[7]) ELSE None,
      zipCodes         |-> zips,
      orderBy          |-> ob,
      itemsPerPage     |-> pg[1],
      page             |-> pg[2] ]

\* The two searches of the tool's docstring.
SampleCriteria ==
    { Criteria("apartment", "sell", {7}, <<0, 0, 0, 0, 0, 0, 2>>,
               Some(<<"75001", "75002">>), None, <<None, None>>),
      Criteria("house", "rent", {2}, <<0, 2000, 0, 0, 0, 0, 0>>,
               None, Some("price"), <<Some(MaxItemsPerPage), Some(2)>>) }

\* headers.get("x-api-key"): absent, empty, or a key.
ApiKeys == {"key-A", "key-B"}
HeaderInputs == {None, Some("")} \cup {Some(k) : k \in ApiKeys}

PayloadSamples ==
    { JObject(("hydra:totalItems" :> JNumber(3)) @@
              ("hydra:member" :> JArray(<<JString("p1"), JString("p2"), JString("p3")>>)) @@
              ("hydra:view" :> JString("/documents/properties?page=1"))),
      JObject(<<>>),
      JObject("hydra:member" :> JNull),
      JObject("hydra:member" :> JString("none")),
      JArray(<<>>) }

UpstreamOutcomes ==
    {Response(200, Some(p)) : p \in PayloadSamples}
    \cup {Response(200, None)}
    \cup {Response(s, None) : s \in {401, 403, 500}}
    \cup {Timeout, ConnectFailure}

\* ---------------------------------------------------------------- Init
IdleCall == [state |-> "idle", criteria |-> None, x_api_key |-> None]

InvocationsInit ==
    /\ call = [i \in Invocations |-> IdleCall]
    /\ frame = [i \in Invocations |-> None]
    /\ sent = [i \in Invocations |-> <<>>]
    /\ reply = [i \in Invocations |-> None]
    /\ log = [i \in Invocations |-> <<>>]
    /\ returned = [i \in Invocations |-> None]
    /\ raised = [i \in Invocations |-> None]

Init ==
    /\ InvocationsInit
    /\ criteria = None
    /\ query = None

\* ------------------------------------------------------------- actions
\* search_properties up to the suspension at client.get: the credential
\* check, then _search_melo_properties builds, logs and sends the request.
Invoke(i) ==
    /\ call[i].state = "idle"
    /\ \E c \in SampleCriteria, h \in HeaderInputs :
         IF missing_api_key(h)
         THEN /\ call' = [call EXCEPT ![i] =
                            [state |-> "done", criteria |-> Some(c), x_api_key |-> h]]
              /\ log' = [log EXCEPT ![i] =
                            @ \o <<Rec("ERROR", <<"Missing X-API-KEY header">>)>>]
              /\ raised' = [raised EXCEPT ![i] = Some(MissingCredentialError)]
              /\ UNCHANGED <<frame, sent, reply, returned>>
         ELSE LET f == locals(Val(h), c)
              IN  /\ call' = [call EXCEPT ![i] =
                                [state |-> "awaiting", criteria |-> Some(c), x_api_key |-> h]]
                  /\ frame' = [frame EXCEPT ![i] = Some(f)]
                  /\ log' = [log EXCEPT ![i] =
                                @ \o <<Rec("INFO", <<"Using API key from request headers">>)>>
                                  \o request_log(f)]
                  /\ sent' = [sent EXCEPT ![i] = @ \o client_get(f)]
                  /\ UNCHANGED <<reply, returned, raised>>
    /\ UNCHANGED <<criteria, query>>

\* The GET resolves with r; the rest of the try block runs and the
\* invocation completes, its locals discarded.
Respond(i) ==
    /\ call[i].state = "awaiting"
    /\ \E r \in UpstreamOutcomes :
         LET o == handle_outcome(r, Val(frame[i]).url)
         IN  /\ reply' = [reply EXCEPT ![i] = Some(r)]
             /\ log' = [log EXCEPT ![i] = @ \o o.records]
             /\ returned' = [returned EXCEPT ![i] = o.returned]
             /\ raised' = [raised EXCEPT ![i] = o.raised]
    /\ call' = [call EXCEPT ![i].state = "done"]
    /\ frame' = [frame EXCEPT ![i] = None]
    /\ UNCHANGED <<sent, criteria, query>>

\* The invocation is cancelled while suspended at client.get: CancelledError
\* propagates through the try block, which only catches HTTPStatusError.
Cancel(i) ==
    /\ call[i].state = "awaiting"
    /\ raised' = [raised EXCEPT ![i] = Some(CancelledError)]
    /\ call' = [call EXCEPT ![i].state = "done"]
    /\ frame' = [frame EXCEPT ![i] = None]
    /\ UNCHANGED <<sent, reply, log, returned, criteria, query>>

Next ==
    \/ \E i \in Invocations : Invoke(i)
    \/ \E i \in Invocations : Respond(i)
    \/ \E i \in Invocations : Cancel(i)

Spec == Init /\ [][Next]_vars

\* The client is built with timeout=30.0: a GET on the wire always resolves
\* (a response, a transport error or a timeout), unless the invocation is
\* cancelled first.
SpecFair == Spec /\ \A i \in Invocations : WF_vars(Respond(i) \/ Cancel(i))

\* ---------------------------------------------------- translation alone
InitTranslate ==
    /\ InvocationsInit
    /\ \E pt \in {"apartment", "house"}, tt \in {"sell", "rent"},
          set \in SUBSET (1 .. 7), row \in NumericRows,
          zips \in ZipInputs, ob \in OrderByInputs, pg \in PaginationInputs :
            criteria = Criteria(pt, tt, set, row, zips, ob, pg)
    /\ query = None

Translate ==
    /\ query = None
    /\ query' = Some(translate(criteria))
    /\ UNCHANGED <<criteria, invocation_vars>>

NextTranslate == Translate

SpecTranslate == InitTranslate /\ [][NextTranslate]_vars

\* ==================================================== properties
Done(i) == call[i].state = "done"
Awaiting(i) == call[i].state = "awaiting"
NoCredential(h) == h = None \/ h = Some("")
Credential(i) == Val(call[i].x_api_key)

\* The values of the pairs of q under key, in their order in q.
RECURSIVE ValuesOf(_, _)
ValuesOf(q, key) ==
    IF q = <<>> THEN <<>>
    ELSE (IF Head(q)[1] = key THEN <<Head(q)[2]>> ELSE <<>>) \o ValuesOf(Tail(q), key)

\* Decimal text of the integers the translation inputs use, written out.
DecimalText(n) ==
    CASE n = 0 -> "0" [] n = 1 -> "1" [] n = 2 -> "2" [] n = 3 -> "3" [] n = 5 -> "5"
      [] n = 9 -> "9" [] n = 10 -> "10" [] n = 99 -> "99" [] n = 2000 -> "2000"
      [] n = 3000 -> "3000" [] n = 100000 -> "100000"
      [] n = -1 -> "-1"

\* C1: an invocation whose headers carry no x-api-key value (absent or
\* empty) fails with the MissingCredential error, returns nothing and issues
\* no upstream GET, whatever its criteria.
C1_MissingCredential ==
    \A i \in Invocations :
        (call[i].state # "idle" /\ NoCredential(call[i].x_api_key)) =>
            /\ Done(i)
            /\ raised[i] = Some(MissingCredentialError)
            /\ returned[i] = None
            /\ sent[i] = <<>>
            /\ reply[i] = None

C1_Witness ==
    \E i, j \in Invocations :
        /\ Done(i) /\ call[i].x_api_key = None
        /\ Done(j) /\ call[j].x_api_key = Some("")
        /\ call[i].criteria # call[j].criteria
        /\ raised[i] = Some(MissingCredentialError)
        /\ raised[j] = Some(MissingCredentialError)
        /\ sent[i] = <<>> /\ sent[j] = <<>>

AuthRejected(i) ==
    /\ Done(i) /\ reply[i] # None
    /\ Val(reply[i]).kind = "response"
    /\ Val(reply[i]).status \in {401, 403}

\* C2: an upstream answer 401 or 403 fails the invocation with the
\* InvalidCredential error, whose message is one fixed text with no fragment
\* equal to the credential; nothing is returned and the GET is not repeated.
C2_InvalidCredential ==
    \A i \in Invocations :
        AuthRejected(i) =>
            /\ raised[i] = Some(InvalidCredentialError)
            /\ \A k \in DOMAIN Val(raised[i]).msg : Val(raised[i]).msg[k] # Credential(i)
            /\ returned[i] = None
            /\ Len(sent[i]) = 1

C2_Witness ==
    \E i, j \in Invocations :
        /\ AuthRejected(i) /\ Val(reply[i]).status = 401
        /\ AuthRejected(j) /\ Val(reply[j]).status = 403
        /\ Credential(i) # Credential(j)
        /\ raised[i] = raised[j]
        /\ raised[i] = Some(InvalidCredentialError)

Succeeded(i) ==
    /\ Done(i) /\ reply[i] # None
    /\ Val(reply[i]).kind = "response"
    /\ is_success(Val(reply[i]).status)
    /\ Val(reply[i]).body # None

\* C3: whenever the upstream answers with a successful status and a body
\* that decodes as JSON, the invocation returns exactly the decoded payload
\* and raises nothing, for every shape of payload.
C3_PayloadVerbatim ==
    \A i \in Invocations :
        Succeeded(i) => (returned[i] = Val(reply[i]).body /\ raised[i] = None)

UpstreamErrorTypes ==
    {"HTTPStatusError", "TimeoutException", "ConnectError", "JSONDecodeError"}

OtherFailure(i) ==
    /\ Done(i) /\ reply[i] # None
    /\ ~Succeeded(i)
    /\ ~AuthRejected(i)

\* C4: any upstream outcome other than a decodable success and other than
\* 401/403 (another non-success status, a timeout, a connection failure, a
\* malformed body) fails the invocation with an upstream error, which is
\* neither the MissingCredential nor the InvalidCredential error; nothing is
\* returned.
C4_UpstreamError ==
    \A i \in Invocations :
        OtherFailure(i) =>
            /\ raised[i] # None
            /\ Val(raised[i]).type \in UpstreamErrorTypes
            /\ Val(raised[i]) \notin {MissingCredentialError, InvalidCredentialError}
            /\ returned[i] = None

C4_Witness ==
    \E i, j \in Invocations :
        /\ OtherFailure(i) /\ Val(reply[i]) = Response(500, None)
        /\ Val(raised[i]).type = "HTTPStatusError"
        /\ OtherFailure(j) /\ Val(reply[j]) = Response(200, None)
        /\ Val(raised[j]).type = "JSONDecodeError"

Translated == query # None
Query == Val(query)

MandatoryKeys ==
    {"propertyTypes[]", "transactionType", "itemsPerPage", "page", "withCoherentPrice"}

NoOptionalSet(c) ==
    /\ \A k \in DOMAIN OptionalFields : c[OptionalFields[k]] = None
    /\ c.zipCodes \in {None, Some(<<>>)}
    /\ c.orderBy = None

\* C5: the translated query holds exactly one pair under each of the five
\* mandatory keys: the code of propertyType (apartment 0, house 1), the code
\* of transactionType (sell 0, rent 1), itemsPerPage as given or 5 when
\* unset, page as given or 1 when unset, withCoherentPrice true; with no
\* optional field, zip code or orderBy set these five pairs are the query.
C5_MandatoryPairs ==
    Translated =>
        /\ ValuesOf(Query, "propertyTypes[]") =
              <<IF criteria.propertyType = "apartment" THEN "0" ELSE "1">>
        /\ ValuesOf(Query, "transactionType") =
              <<IF criteria.transactionType = "sell" THEN "0" ELSE "1">>
        /\ ValuesOf(Query, "itemsPerPage") =
              <<IF criteria.itemsPerPage = None THEN "5"
                ELSE DecimalText(Val(criteria.itemsPerPage))>>
        /\ ValuesOf(Query, "page") =
              <<IF criteria.page = None THEN "1" ELSE DecimalText(Val(criteria.page))>>
        /\ ValuesOf(Query, "withCoherentPrice") = <<"true">>
        /\ NoOptionalSet(criteria) =>
              /\ Len(Query) = 5
              /\ \A k \in DOMAIN Query : Query[k][1] \in MandatoryKeys

C5_Witness ==
    /\ Translated
    /\ NoOptionalSet(criteria)
    /\ criteria.propertyType = "house" /\ criteria.transactionType = "rent"
    /\ criteria.itemsPerPage = None /\ criteria.page = None
    /\ Len(Query) = 5
    /\ ValuesOf(Query, "itemsPerPage") = <<"5">>
    /\ ValuesOf(Query, "propertyTypes[]") = <<"1">>

\* C6: for each of the seven optional numeric fields the translated query
\* holds a pair under the field's upstream key if and only if the field is
\* set (0 counts as set), exactly once, valued with the decimal text of the
\* given integer.
C6_OptionalPairs ==
    Translated =>
        \A k \in DOMAIN OptionalFields :
            LET given == criteria[OptionalFields[k]]
            IN  ValuesOf(Query, OptionalFields[k]) =
                    IF given = None THEN <<>> ELSE <<DecimalText(Val(given))>>

C6_Witness ==
    /\ Translated
    /\ criteria.budgetMin = None /\ criteria.budgetMax = Some(0)
    /\ criteria.surfaceMax = Some(10) /\ criteria.bedroomMin = Some(-1)
    /\ ValuesOf(Query, "budgetMin") = <<>>
    /\ ValuesOf(Query, "budgetMax") = <<"0">>
    /\ ValuesOf(Query, "surfaceMax") = <<"10">>

\* C7: the includedZipcodes[] pairs of the translated query carry exactly
\* the caller's zip codes, in the caller's order and with duplicates kept;
\* an absent or empty list gives no such pair.
C7_ZipCodes ==
    Translated =>
        ValuesOf(Query, "includedZipcodes[]") =
            IF criteria.zipCodes = None THEN <<>> ELSE Val(criteria.zipCodes)

C7_Witness ==
    /\ Translated
    /\ criteria.zipCodes = Some(<<"75012", "75012">>)
    /\ ValuesOf(Query, "includedZipcodes[]") = <<"75012", "75012">>

SortKeys == {"order[pricePerMeter]", "order[price]", "order[updatedAt]"}

SortPairs(q) == SelectSeq(q, LAMBDA p : p[1] \in SortKeys)

\* C8: the translated query holds at most one sort pair: orderBy
\* pricePerMeter gives order[pricePerMeter]=asc, price gives order[price]=asc,
\* updatedAt gives order[updatedAt]=desc, and an absent orderBy or any other
\* value gives none.
C8_SortPair ==
    Translated =>
        SortPairs(Query) =
            IF criteria.orderBy = Some("pricePerMeter")
                THEN << <<"order[pricePerMeter]", "asc">> >>
            ELSE IF criteria.orderBy = Some("price")
                THEN << <<"order[price]", "asc">> >>
            ELSE IF criteria.orderBy = Some("updatedAt")
                THEN << <<"order[updatedAt]", "desc">> >>
            ELSE <<>>

C8_Witness ==
    /\ Translated
    /\ criteria.orderBy = Some("updatedAt")
    /\ criteria.zipCodes = Some(<<"75011">>)
    /\ SortPairs(Query) = << <<"order[updatedAt]", "desc">> >>

HasCredential(i) == call[i].state # "idle" /\ ~NoCredential(call[i].x_api_key)

C9_OneAttempt ==
    \A i \in Invocations :
        /\ (HasCredential(i) /\ Awaiting(i)) =>
              (Len(sent[i]) = 1 /\ returned[i] = None /\ raised[i] = None)
        /\ (HasCredential(i) /\ Done(i)) =>
              /\ Len(sent[i]) = 1
              /\ (returned[i] = None) # (raised[i] = None)
              /\ returned[i] # None =>
                    (reply[i] # None /\ returned[i] = Val(reply[i]).body)
              /\ (reply[i] # None /\ ~Succeeded(i)) => raised[i] # None

C9_Terminal ==
    \A i \in Invocations :
        Done(i) =>
            /\ call'[i] = call[i]
            /\ sent'[i] = sent[i]
            /\ returned'[i] = returned[i]
            /\ raised'[i] = raised[i]

LogFragments(i) ==
    UNION { {log[i][n].msg[k] : k \in DOMAIN log[i][n].msg} : n \in DOMAIN log[i] }

Credentials == {Credential(i) : i \in {j \in Invocations : HasCredential(j)}}

\* C10: under every interleaving, each request an invocation sends carries
\* that invocation's own credential in X-API-KEY and the query translated
\* from its own criteria; the credential appears nowhere else in the request,
\* in no log record of any invocation, and in no state kept once the
\* invocation has completed.
C10_Isolation ==
    \A i \in Invocations :
        /\ \A n \in DOMAIN sent[i] :
              /\ sent[i][n].headers["X-API-KEY"] = Credential(i)
              /\ sent[i][n].params = translate(Val(call[i].criteria))
              /\ sent[i][n].headers["Content-Type"] \notin Credentials
              /\ sent[i][n].url \notin Credentials
              /\ \A k \in DOMAIN sent[i][n].params :
                    sent[i][n].params[k][2] \notin Credentials
        /\ LogFragments(i) \cap Credentials = {}
        /\ Done(i) => frame[i] = None
        /\ Awaiting(i) => Val(frame[i]).api_key = Credential(i)

C10_Witness ==
    \E i, j \in Invocations :
        /\ Awaiting(i) /\ Done(j) /\ Succeeded(j)
        /\ Credential(i) # Credential(j)
        /\ call[i].criteria # call[j].criteria
        /\ Len(sent[i]) = 1 /\ Len(sent[j]) = 1
        /\ sent[i][1].headers["X-API-KEY"] = Credential(i)
        /\ sent[j][1].headers["X-API-KEY"] = Credential(j)
        /\ log[i] # <<>> /\ log[j] # <<>>

====
